---- MODULE Spec2Model ----
(***************************************************************************)
(* Model of My_Health_App4.py: a Streamlit script that evaluates a health  *)
(* form (BMI, waist, ideal weight), appends the record to bmi_log.csv and  *)
(* re-reads the log for display and for the PDF report.                    *)
(*                                                                         *)
(* Units.  Floats are modelled as exact fixed-point integers:              *)
(*   height  in cm            (1.73 m      = 173)                          *)
(*   weight  in 10^-5 kg      (66.0 kg     = 6600000)                      *)
(*   waist   in 10^-3 cm      (84.999 cm   = 84999)                        *)
(*   BMI     stored in 10^-2  (22.05       = 2205)                         *)
(*   km      in 10^-1 km                                                   *)
(* A value computed by a division (bmi) is kept as a fraction <<num, den>> *)
(* so that comparisons with 18.5, 25 and 30 are exact.                     *)
(*                                                                         *)
(* Strings.  Column names and labels are written in ASCII:                 *)
(*   "date" = 日時, "height" = 身長(m), "weight" = 体重(kg),               *)
(*   "waist" = 腹囲(cm), "BMI" = BMI, "gender" = 性別,                     *)
(*   "run" = ランニング(km), "bike" = 自転車(km), "swim" = 水泳(km);       *)
(*   "male" = 男性, "female" = 女性;                                       *)
(*   "thin" = やせ型, "standard" = 標準体型, "obese1" = 肥満（1度）,       *)
(*   "severe" = 高度肥満, "heavy" = 太り気味,                              *)
(*   "normal" = 正常, "metabo" = メタボの可能性あり.                       *)
(***************************************************************************)
EXTENDS Integers, Sequences, FiniteSets, TLC

VARIABLES
    file,      \* bmi_log.csv on disk
    file0,     \* the log as it was when the sessions started (history)
    pc,        \* pc[p]: where session p's script run is
    entry,     \* entry[p]: log_entry built by p's last submit
    sdf,       \* sdf[p]: the local df of save_log (what load_log returned)
    df,        \* df[p]: the module-level df of line 101 (what is displayed)
    shown,     \* shown[p]: the diagnosis written to the page by the submit path
    report,    \* report[p]: what the PDF report path derived
    writers,   \* sessions in the order their to_csv completed (history)
    nsub,      \* number of submits so far
    ev         \* evaluator under test: inputs and, once applied, outputs

vars == <<file, file0, pc, entry, sdf, df, shown, report, writers, nsub, ev>>

----------------------------------------------------------------------------
(* Bounds of the model *)

MaxSubmits == 2

Sessions == {1, 2}

----------------------------------------------------------------------------
(* Helpers *)

Range(s) == {s[i] : i \in 1..Len(s)}

IndexOf(s, x) == CHOOSE i \in 1..Len(s) : s[i] = x

Abs(x) == IF x < 0 THEN -x ELSE x

Last(s) == s[Len(s)]

\* the elements of sequence s that are not in set T, in order
RECURSIVE Without(_, _)
Without(s, T) ==
    IF s = <<>> THEN <<>>
    ELSE IF Head(s) \in T THEN Without(Tail(s), T)
         ELSE <<Head(s)>> \o Without(Tail(s), T)

----------------------------------------------------------------------------
(* Cells of a DataFrame and fields of the CSV text *)

NaN == <<"nan">>
F(n) == <<"f", n>>
S(s) == <<"s", s>>

EmptyField == <<"">>

\* to_csv renders a missing value as the empty field (na_rep = '')
format_cell(c) ==
    IF c = NaN THEN EmptyField
    ELSE IF c[1] = "f" THEN <<"num", c[2]>>
    ELSE <<"txt", c[2]>>

\* a faulty parse_field: every field is read as text (dtype=str)
parse_field_as_text(t) ==
    IF t = EmptyField THEN NaN ELSE S(t[2])

\* read_csv parses the empty field as NaN, numeric text as float
parse_field(t) ==
    IF t = EmptyField THEN NaN
    ELSE IF t[1] = "num" THEN F(t[2])
    ELSE S(t[2])

----------------------------------------------------------------------------
(* Columns *)

CoreCols == <<"date", "height", "weight", "waist", "BMI", "gender">>
ActivityCols == <<"run", "bike", "swim">>
CanonicalCols == CoreCols \o ActivityCols

----------------------------------------------------------------------------
(* The file and the table *)

NoFile == [present |-> FALSE, bom |-> FALSE, header |-> <<>>, rows |-> <<>>]

\* what open(LOG_FILE, "w") leaves before anything is written
ZeroByteFile == [present |-> TRUE, bom |-> FALSE, header |-> <<>>, rows |-> <<>>]

LoadError == [ok |-> FALSE, columns |-> <<>>, rows |-> <<>>]

DataFrame(cols, rows) == [ok |-> TRUE, columns |-> cols, rows |-> rows]

\* pd.read_csv(LOG_FILE, encoding="utf-8-sig"): the BOM, when there is one, is
\* stripped; the header line names the columns; each line's fields are taken by
\* position.  A file with no header line raises EmptyDataError.
read_csv(f) ==
    IF Len(f.header) = 0 THEN LoadError
    ELSE DataFrame(f.header,
           [i \in 1..Len(f.rows) |->
              [c \in Range(f.header) |-> parse_field(f.rows[i][IndexOf(f.header, c)])]])

\* df[col] = 0.0 when col is not a column of df
backfill(d, col) ==
    IF col \in Range(d.columns) THEN d
    ELSE DataFrame(Append(d.columns, col),
           [i \in 1..Len(d.rows) |->
              [c \in Range(d.columns) \cup {col} |->
                 IF c = col THEN F(0) ELSE d.rows[i][c]]])

\* a faulty load_log: the swim column is not backfilled
load_log_two_cols(f) ==
    IF f.present
    THEN LET d0 == read_csv(f)
         IN IF d0.ok THEN backfill(backfill(d0, "run"), "bike") ELSE d0
    ELSE DataFrame(CanonicalCols, <<>>)

load_log(f) ==
    IF f.present
    THEN LET d0 == read_csv(f)
         IN IF d0.ok
            THEN backfill(backfill(backfill(d0, ActivityCols[1]), ActivityCols[2]),
                          ActivityCols[3])
            ELSE d0
    ELSE DataFrame(CanonicalCols, <<>>)

\* a row widened to the columns cs: NaN where it has no value
widen(row, cs) == [c \in cs |-> IF c \in DOMAIN row THEN row[c] ELSE NaN]

\* the keys of the log_entry dict, in the order it lists them
EntryCols == CanonicalCols

\* a faulty concat: the new row is put before the loaded rows
concat_prepend(d, e) ==
    LET cols == d.columns \o Without(EntryCols, Range(d.columns))
        cs == Range(cols)
    IN DataFrame(cols,
         <<widen(e, cs)>> \o [i \in 1..Len(d.rows) |-> widen(d.rows[i], cs)])

\* pd.concat([df, pd.DataFrame([entry])], ignore_index=True): the columns are
\* df's followed by the entry's that df lacks; rows are aligned by column name
concat(d, e) ==
    LET cols == d.columns \o Without(EntryCols, Range(d.columns))
        cs == Range(cols)
    IN DataFrame(cols,
         Append([i \in 1..Len(d.rows) |-> widen(d.rows[i], cs)], widen(e, cs)))

\* df.to_csv(LOG_FILE, index=False, encoding="utf-8-sig"): BOM, header line,
\* one line per row with the fields in header order
to_csv(d) ==
    [present |-> TRUE, bom |-> TRUE, header |-> d.columns,
     rows |-> [i \in 1..Len(d.rows) |->
                 [j \in 1..Len(d.columns) |-> format_cell(d.rows[i][d.columns[j]])]]]

\* the first k lines of the text f (line 1 is the header)
partial(f, k) ==
    IF k = 0 THEN ZeroByteFile
    ELSE [f EXCEPT !.rows = SubSeq(f.rows, 1, k - 1)]

----------------------------------------------------------------------------
(* The evaluator: lines 74-81 (submit path) and 115-121 (report path) *)

HEIGHT == 173

\* thresholds, in the units of the module header
BmiThin == 185          \* 18.5, in tenths
BmiStandard == 250      \* 25
BmiObese1 == 300        \* 30
WaistMale == 85000      \* 85 cm
WaistFemale == 90000    \* 90 cm
IdealBmi == 22

\* weight / (height ** 2), in kg/m^2, as a fraction
bmi_of(weight, height) == <<weight, 10 * height * height>>

\* the fraction b is below t10 tenths (b's denominator is positive)
FracLt(b, t10) == b[1] * 10 < t10 * b[2]

\* round(bmi, 2), in hundredths: to nearest, ties to even
round2(b) ==
    LET n == 100 * b[1]
        q == n \div b[2]
        r == n % b[2]
    IN IF 2 * r > b[2] THEN q + 1
       ELSE IF 2 * r < b[2] THEN q
       ELSE IF q % 2 = 0 THEN q ELSE q + 1

\* 22 * (height ** 2), in 10^-5 kg
ideal_weight_of(height) == IdealBmi * 10 * height * height

\* a faulty bmi_msg: bmi <= 18.5 is judged thin
bmi_msg_inclusive(b) ==
    IF ~ (BmiThin * b[2] < b[1] * 10) THEN "thin"
    ELSE IF FracLt(b, BmiStandard) THEN "standard"
    ELSE IF FracLt(b, BmiObese1) THEN "obese1"
    ELSE "severe"

bmi_msg(b) ==
    IF FracLt(b, BmiThin) THEN "thin"
    ELSE IF FracLt(b, BmiStandard) THEN "standard"
    ELSE IF FracLt(b, BmiObese1) THEN "obese1"
    ELSE "severe"

\* a faulty waist_msg: a male waist of exactly 85 is judged normal
waist_msg_inclusive(waist, gender) ==
    IF (IF gender = "male" THEN waist <= WaistMale ELSE waist < WaistFemale)
    THEN "normal" ELSE "metabo"

waist_msg(waist, gender) ==
    IF (IF gender = "male" THEN waist < WaistMale ELSE waist < WaistFemale)
    THEN "normal" ELSE "metabo"

\* a faulty weight_msg: the 10% edges are excluded
weight_msg_exclusive(weight, ideal) ==
    IF 10 * Abs(weight - ideal) < ideal THEN "standard"
    ELSE IF weight < ideal THEN "thin"
    ELSE "heavy"

\* abs(diff) <= ideal_weight * 0.1
weight_msg(weight, ideal) ==
    IF 10 * Abs(weight - ideal) <= ideal THEN "standard"
    ELSE IF weight < ideal THEN "thin"
    ELSE "heavy"

\* lines 74-81: what the submit path computes from the form
Evaluate(height, weight, waist, gender) ==
    LET bmi == bmi_of(weight, height)
        ideal == ideal_weight_of(height)
    IN [bmi |-> bmi, ideal_weight |-> ideal,
        bmi_msg |-> bmi_msg(bmi),
        waist_msg |-> waist_msg(waist, gender),
        weight_msg |-> weight_msg(weight, ideal)]

\* lines 91-96
log_entry(now, height, weight, waist, bmi, gender, run, bike, swim) ==
    [date |-> S(now), height |-> F(height), weight |-> F(weight),
     waist |-> F(waist), BMI |-> F(round2(bmi)), gender |-> S(gender),
     run |-> F(run), bike |-> F(bike), swim |-> F(swim)]

\* the columns the report path reads from the latest row (lines 110-114)
ReportCols == {"weight", "waist", "height", "BMI", "gender"}

\* lines 109-121: bmi is the stored column, the rest is derived again
Rederive(latest) ==
    LET weight == latest["weight"][2]
        waist == latest["waist"][2]
        height == latest["height"][2]
        bmi == <<latest["BMI"][2], 100>>
        gender == IF latest["gender"] = NaN THEN "nan" ELSE latest["gender"][2]
        ideal == ideal_weight_of(height)
    IN [status |-> "ok", latest |-> latest, height |-> height,
        bmi_msg |-> bmi_msg(bmi),
        waist_msg |-> waist_msg(waist, gender),
        weight_msg |-> weight_msg(weight, ideal)]

NoReport == [status |-> "none"]

----------------------------------------------------------------------------
(* Inputs *)

\* what the form can submit (weight, waist: any float; distances: >= 0)
Forms ==
    { [weight |-> 6600000, waist |-> 83000, gender |-> "male",
       run |-> 0, bike |-> 0, swim |-> 0],
      [weight |-> 5536000, waist |-> 85000, gender |-> "male",
       run |-> 50, bike |-> 0, swim |-> 0],
      [weight |-> 9000000, waist |-> 95000, gender |-> "female",
       run |-> 0, bike |-> 100, swim |-> 5] }

\* records an earlier version of the script, or an editor, left in the file
recA ==
    [date |-> S(-2), height |-> F(173), weight |-> F(7000000), waist |-> F(80000),
     BMI |-> F(2339), gender |-> S("male"),
     run |-> F(30), bike |-> F(0), swim |-> F(0), memo |-> S("note")]

recB ==
    [date |-> S(-1), height |-> F(-173), weight |-> F(6000000), waist |-> F(91000),
     BMI |-> F(2005), gender |-> S("female"),
     run |-> F(0), bike |-> F(120), swim |-> F(10), memo |-> NaN]

StoredRows == {<<>>, <<recA>>, <<recA, recB>>, <<recB, recA>>}

\* the headers a stored file may have: every canonical column; the core columns
\* with some or none of the activity columns; no gender column; one more column
Headers ==
    { CanonicalCols,
      CoreCols,
      CoreCols \o <<"run", "bike">>,
      <<"date", "height", "weight", "waist", "BMI">> \o ActivityCols,
      CanonicalCols \o <<"memo">> }

Stored(h, rs) ==
    [present |-> TRUE, bom |-> TRUE, header |-> h,
     rows |-> [i \in 1..Len(rs) |-> [j \in 1..Len(h) |-> format_cell(rs[i][h[j]])]]]

InitFiles == {NoFile} \cup {Stored(h, rs) : h \in Headers, rs \in StoredRows}

\* inputs of the evaluator under test
EvalHeights == {150, 173, 200}
EvalFactors == {185, 198, 220, 242, 250, 300}
EvalWaists == {83000, 84999, 85000, 89999, 90000, 95000}
Genders == {"male", "female"}

EvalInputs ==
    { [height |-> h, weight |-> k * h * h + d, waist |-> w, gender |-> g,
       done |-> FALSE, out |-> <<>>] :
        h \in EvalHeights, k \in EvalFactors, d \in {-1, 0, 1},
        w \in EvalWaists, g \in Genders }

EvalIdle == [height |-> HEIGHT, weight |-> 0, waist |-> 0, gender |-> "male",
             done |-> FALSE, out |-> <<>>]

----------------------------------------------------------------------------
(* Initial states *)

NoEntry == <<>>
NoShown == <<>>

InitSessions ==
    /\ file0 = file
    /\ pc = [p \in Sessions |-> "start"]
    /\ entry = [p \in Sessions |-> NoEntry]
    /\ sdf = [p \in Sessions |-> LoadError]
    /\ df = [p \in Sessions |-> LoadError]
    /\ shown = [p \in Sessions |-> NoShown]
    /\ report = [p \in Sessions |-> NoReport]
    /\ writers = <<>>
    /\ nsub = 0

Init ==
    /\ file \in InitFiles
    /\ InitSessions
    /\ ev = EvalIdle

\* the files the two-session runs start from
SharedFiles == {NoFile, Stored(CanonicalCols, <<recA>>), Stored(CoreCols, <<recA, recB>>)}

InitShared ==
    /\ file \in SharedFiles
    /\ InitSessions
    /\ ev = EvalIdle

InitEval ==
    /\ file = NoFile
    /\ InitSessions
    /\ ev \in EvalInputs

----------------------------------------------------------------------------
(* Actions of a session p: one script run, cut where it touches the file *)

\* lines 101-105 of a run in which nothing was pressed (first run, reload)
View(p) ==
    /\ pc[p] \in {"start", "idle", "failed", "save_failed"}
    /\ LET d == load_log(file)
       IN /\ df' = [df EXCEPT ![p] = d]
          /\ pc' = [pc EXCEPT ![p] = IF d.ok THEN "idle" ELSE "failed"]
    /\ UNCHANGED <<file, file0, entry, sdf, shown, report, writers, nsub, ev>>

\* lines 73-96: the form is submitted; the diagnosis is shown, log_entry built
Submit(p) ==
    /\ pc[p] = "idle"
    /\ nsub < MaxSubmits
    /\ \E f \in Forms :
         LET e == Evaluate(HEIGHT, f.weight, f.waist, f.gender)
             now == nsub    \* datetime.now(): the n-th submit is made in minute n
         IN /\ shown' = [shown EXCEPT ![p] = e]
            /\ entry' = [entry EXCEPT ![p] =
                 log_entry(now, HEIGHT, f.weight, f.waist, e.bmi, f.gender,
                           f.run, f.bike, f.swim)]
    /\ nsub' = nsub + 1
    /\ pc' = [pc EXCEPT ![p] = "save_load"]
    /\ UNCHANGED <<file, file0, sdf, df, report, writers, ev>>

\* line 30: df = load_log(); a file that cannot be parsed raises
SaveLoad(p) ==
    /\ pc[p] = "save_load"
    /\ LET d == load_log(file)
       IN /\ sdf' = [sdf EXCEPT ![p] = d]
          /\ pc' = [pc EXCEPT ![p] = IF d.ok THEN "save_open" ELSE "failed"]
    /\ UNCHANGED <<file, file0, entry, df, shown, report, writers, nsub, ev>>

\* line 32, first half: to_csv opens LOG_FILE for writing, which truncates it
SaveOpen(p) ==
    /\ pc[p] = "save_open"
    /\ file' = ZeroByteFile
    /\ pc' = [pc EXCEPT ![p] = "save_write"]
    /\ UNCHANGED <<file0, entry, sdf, df, shown, report, writers, nsub, ev>>

\* line 32, second half: the whole table (line 31) is written and the file closed
SaveWrite(p) ==
    /\ pc[p] = "save_write"
    /\ file' = to_csv(concat(sdf[p], entry[p]))
    /\ writers' = Append(writers, p)
    /\ pc' = [pc EXCEPT ![p] = "display"]
    /\ UNCHANGED <<file0, entry, sdf, df, shown, report, nsub, ev>>

\* line 32: the open is refused (no write permission); nothing is touched
OpenFail(p) ==
    /\ pc[p] = "save_open"
    /\ pc' = [pc EXCEPT ![p] = "save_failed"]
    /\ UNCHANGED <<file, file0, entry, sdf, df, shown, report, writers, nsub, ev>>

\* line 32: the write fails part-way (disk full, process killed): the file keeps
\* the lines written so far
SaveFail(p) ==
    /\ pc[p] = "save_write"
    /\ LET full == to_csv(concat(sdf[p], entry[p]))
       IN \E k \in 0..Len(full.rows) : file' = partial(full, k)
    /\ pc' = [pc EXCEPT ![p] = "save_failed"]
    /\ UNCHANGED <<file0, entry, sdf, df, shown, report, writers, nsub, ev>>

\* lines 101-105 at the end of the submit run
Display(p) ==
    /\ pc[p] = "display"
    /\ LET d == load_log(file)
       IN /\ df' = [df EXCEPT ![p] = d]
          /\ pc' = [pc EXCEPT ![p] = IF d.ok THEN "idle" ELSE "failed"]
    /\ UNCHANGED <<file, file0, entry, sdf, shown, report, writers, nsub, ev>>

\* lines 101-137 of the run the PDF button starts; the button is on the page
\* only when the last run displayed a log that was not empty
Report(p) ==
    /\ pc[p] = "idle"
    /\ df[p].ok /\ df[p].rows # <<>>
    /\ LET d == load_log(file)
       IN /\ df' = [df EXCEPT ![p] = d]
          /\ IF ~ d.ok
             THEN /\ pc' = [pc EXCEPT ![p] = "failed"]
                  /\ UNCHANGED report
             ELSE IF d.rows = <<>>
             THEN UNCHANGED <<pc, report>>
             ELSE IF ~ (ReportCols \subseteq Range(d.columns))
             THEN /\ pc' = [pc EXCEPT ![p] = "failed"]
                  /\ UNCHANGED report
             ELSE /\ report' = [report EXCEPT ![p] = Rederive(Last(d.rows))]
                  /\ UNCHANGED pc
    /\ UNCHANGED <<file, file0, entry, sdf, shown, writers, nsub, ev>>

\* the evaluator applied to the inputs under test
Apply ==
    /\ ~ ev.done
    /\ ev' = [ev EXCEPT !.done = TRUE,
                        !.out = Evaluate(ev.height, ev.weight, ev.waist, ev.gender)]
    /\ UNCHANGED <<file, file0, pc, entry, sdf, df, shown, report, writers, nsub>>

----------------------------------------------------------------------------
(* Specifications *)

\* two sessions submit to the same file; no I/O failure, no report
Next ==
    \E p \in Sessions :
        \/ View(p)
        \/ Submit(p)
        \/ SaveLoad(p)
        \/ SaveOpen(p)
        \/ SaveWrite(p)
        \/ Display(p)

Spec == InitShared /\ [][Next]_vars

\* a single session; the write may fail
NextSolo ==
    \/ View(1)
    \/ Submit(1)
    \/ SaveLoad(1)
    \/ SaveOpen(1)
    \/ OpenFail(1)
    \/ SaveWrite(1)
    \/ SaveFail(1)
    \/ Display(1)
    \/ Report(1)

SpecSolo == Init /\ [][NextSolo]_vars

\* the evaluator alone, on inputs around every threshold
NextEval == Apply

SpecEval == InitEval /\ [][NextEval]_vars

----------------------------------------------------------------------------
(* Relations between rows and between tables, used to state the properties *)

\* row new holds row old's value in every column of old
Agrees(old, new) == \A c \in DOMAIN old : c \in DOMAIN new /\ new[c] = old[c]

\* ... and a missing value in every other column
Padded(old, new) ==
    /\ Agrees(old, new)
    /\ \A c \in (DOMAIN new) \ (DOMAIN old) : new[c] = NaN

\* table d holds the rows of table b, in order, and nothing else
SameLog(b, d) ==
    /\ Len(d.rows) = Len(b.rows)
    /\ \A i \in 1..Len(b.rows) : Agrees(b.rows[i], d.rows[i])

\* table d holds the rows of table b, in order, and then the record e
IsAppend(b, e, d) ==
    /\ Len(d.rows) = Len(b.rows) + 1
    /\ \A i \in 1..Len(b.rows) : Agrees(b.rows[i], d.rows[i])
    /\ Agrees(e, Last(d.rows))

----------------------------------------------------------------------------
(* C1 *)

----------------------------------------------------------------------------
(* C2 *)

\* C2: whenever the single session is between operations, the persisted log holds
\* every row it held at the start, unchanged and in the same order, followed by one
\* row per append made: nothing is ever removed, reordered or edited, and only an
\* append changes the log.
C2_AppendOnly ==
    pc[1] \in {"start", "idle", "failed", "save_failed"} =>
        LET d0 == load_log(file0)
            d == load_log(file)
        IN /\ d.ok
           /\ Len(d.rows) = Len(d0.rows) + Len(writers)
           /\ \A i \in 1..Len(d0.rows) : Agrees(d0.rows[i], d.rows[i])

----------------------------------------------------------------------------
(* C3 *)

\* the table d has the file's rows in the file's order
StoredOrder(f, d) ==
    /\ Len(d.rows) = Len(f.rows)
    /\ \A i \in 1..Len(f.rows) : \A j \in 1..Len(f.header) :
          d.rows[i][f.header[j]] = parse_field(f.rows[i][j])

\* every activity column the file lacks is in d, 0.0 in every row
ZeroFilled(f, d) ==
    \A c \in Range(ActivityCols) \ Range(f.header) :
        /\ c \in Range(d.columns)
        /\ \A i \in 1..Len(d.rows) : d.rows[i][c] = F(0)

\* C3 as stated: whatever columns the stored header has, the table load() returned
\* to the session exposes the full canonical column set, with 0.0 in every absent
\* activity column and the rows in stored order.
C3_FullCanonical ==
    (pc[1] = "idle" /\ file.present /\ df[1].ok /\ df[1] = load_log(file)) =>
        /\ Range(CanonicalCols) \subseteq Range(df[1].columns)
        /\ ZeroFilled(file, df[1])
        /\ StoredOrder(file, df[1])

\* C3 amended: load() exposes the stored header's columns together with the three
\* activity columns (so the full canonical set whenever the stored header has the
\* six core columns); each activity column absent from the stored table is 0.0 in
\* every row; the rows are the stored rows in stored order.
C3_Normalised ==
    (file.present /\ load_log(file).ok) =>
        LET d == load_log(file)
        IN /\ Range(d.columns) = Range(file.header) \cup Range(ActivityCols)
           /\ (Range(CoreCols) \subseteq Range(file.header)
                 => Range(CanonicalCols) \subseteq Range(d.columns))
           /\ ZeroFilled(file, d)
           /\ StoredOrder(file, d)

\* the session has loaded a stored table of two rows that has no swim column
C3_Witness ==
    /\ pc[1] = "idle"
    /\ file.present
    /\ "swim" \notin Range(file.header)
    /\ Len(file.rows) = 2
    /\ df[1] = load_log(file)
    /\ \A i \in 1..2 : df[1].rows[i]["swim"] = F(0)

----------------------------------------------------------------------------
(* C4 *)

\* C4: at every point of an append, from the load to its end or its failure, the
\* persisted log is readable and is the prior log or the prior log plus the new
\* record; after a failed append it is the prior log.
C4_AtomicAppend ==
    pc[1] \in {"save_open", "save_write", "save_failed", "display"} =>
        LET d == load_log(file)
        IN /\ d.ok
           /\ SameLog(sdf[1], d) \/ IsAppend(sdf[1], entry[1], d)
           /\ pc[1] = "save_failed" => SameLog(sdf[1], d)

----------------------------------------------------------------------------
(* C5, C6, C7: the evaluator, on every input under test.  With weight W in      *)
(* 10^-5 kg and height H in cm, bmi = W / (10 H^2) and ideal = 220 H^2.          *)

\* C5: the BMI category is underweight iff bmi < 18.5, normal iff 18.5 <= bmi < 25,
\* obese-class-1 iff 25 <= bmi < 30, severely-obese iff bmi >= 30; one category
\* is returned for every input.
C5_BmiCategory ==
    ev.done =>
        LET W == ev.weight
            H2 == ev.height * ev.height
            m == ev.out.bmi_msg
        IN /\ m \in {"thin", "standard", "obese1", "severe"}
           /\ (m = "thin") <=> (W < 185 * H2)
           /\ (m = "standard") <=> (185 * H2 <= W /\ W < 250 * H2)
           /\ (m = "obese1") <=> (250 * H2 <= W /\ W < 300 * H2)
           /\ (m = "severe") <=> (300 * H2 <= W)

\* the three boundaries: bmi exactly 18.5, 25 and 30, for height 1.73
C5_Witness ==
    /\ ev.done
    /\ ev.height = 173
    /\ \/ ev.weight = 185 * 173 * 173 /\ ev.out.bmi_msg = "standard"
       \/ ev.weight = 250 * 173 * 173 /\ ev.out.bmi_msg = "obese1"
       \/ ev.weight = 300 * 173 * 173 /\ ev.out.bmi_msg = "severe"

\* C6: the waist risk is normal iff the waist is strictly below the gender's
\* threshold (85 cm male, 90 cm female) and metabolic-risk otherwise.
C6_WaistRisk ==
    ev.done =>
        LET threshold == IF ev.gender = "male" THEN 85000 ELSE 90000
            m == ev.out.waist_msg
        IN /\ (m = "normal") <=> (ev.waist < threshold)
           /\ (m = "metabo") <=> (ev.waist >= threshold)

\* a male waist of exactly 85 cm is judged metabolic-risk
C6_Witness ==
    /\ ev.done
    /\ ev.gender = "male"
    /\ ev.waist = 85000
    /\ ev.out.waist_msg = "metabo"

\* C7: the weight-deviation category is normal iff |diff| <= 0.1 * ideal,
\* underweight iff diff < -0.1 * ideal, overweight iff diff > 0.1 * ideal.
C7_WeightDeviation ==
    ev.done =>
        LET ideal == 220 * ev.height * ev.height
            diff == ev.weight - ideal
            m == ev.out.weight_msg
        IN /\ m \in {"standard", "thin", "heavy"}
           /\ ev.out.ideal_weight = ideal
           /\ (m = "standard") <=> (-ideal <= 10 * diff /\ 10 * diff <= ideal)
           /\ (m = "thin") <=> (10 * diff < -ideal)
           /\ (m = "heavy") <=> (10 * diff > ideal)

\* a weight exactly on the lower or the upper 10% edge is judged normal
C7_Witness ==
    /\ ev.done
    /\ ev.out.weight_msg = "standard"
    /\ \/ ev.weight = 198 * ev.height * ev.height
       \/ ev.weight = 242 * ev.height * ev.height

----------------------------------------------------------------------------
(* C8 *)

\* C8: when two sessions have both completed an append made from the same loaded
\* log, the persisted log is that log plus the record of the session that wrote
\* last, and nothing else: the other session's row is not in it.
C8_LastWriterWins ==
    \A p \in Sessions, q \in Sessions :
        ( /\ p # q
          /\ Len(writers) >= 2
          /\ writers[Len(writers)] = p
          /\ writers[Len(writers) - 1] = q
          /\ pc[p] \in {"display", "idle"}
          /\ pc[q] \in {"display", "idle"}
          /\ sdf[p] = sdf[q] )
        => LET d == load_log(file)
           IN /\ d.ok
              /\ IsAppend(sdf[p], entry[p], d)

\* both sessions loaded the same log, both appends have completed, their records
\* differ, and the persisted log has one row more than at the start: the last
\* writer's, not the other's
C8_LostUpdate ==
    \E p \in Sessions, q \in Sessions :
        /\ p # q
        /\ writers = <<q, p>>
        /\ pc[p] = "idle" /\ pc[q] = "idle"
        /\ entry[p] # entry[q]
        /\ sdf[p] = sdf[q]
        /\ LET d == load_log(file)
           IN /\ d.ok
              /\ Len(d.rows) = Len(load_log(file0).rows) + 1
              /\ Agrees(entry[p], Last(d.rows))
              /\ \A i \in 1..Len(d.rows) : ~ Agrees(entry[q], d.rows[i])

----------------------------------------------------------------------------
(* C9 *)

\* C9: the report path never derives categories from a non-positive height: when
\* the height read back from the persisted row is <= 0 the outcome is an error.
C9_InvalidHeightRejected ==
    report[1].status = "ok" => report[1].height > 0

----------------------------------------------------------------------------
(* C10 *)

\* C10: when the report is made from the row the session's last submit appended,
\* its three categories are those the submit path displayed.
C10_ReportAgreesWithSubmit ==
    ( /\ nsub > 0
      /\ writers # <<>>
      /\ report[1].status = "ok"
      /\ Agrees(entry[1], report[1].latest) )
    => /\ report[1].bmi_msg = shown[1].bmi_msg
       /\ report[1].waist_msg = shown[1].waist_msg
       /\ report[1].weight_msg = shown[1].weight_msg

====
